---- MODULE Spec2Model ----
(***************************************************************************)
(* A model of the calculation core of src/proto1.py:                       *)
(*   load_mortality_tables / _generate_synthetic_mortality   (SpecLoad)    *)
(*   calculate_life_annuity_factor                           (SpecAnnuity) *)
(*   run_simulation, which calls the annuity valuation       (Spec)        *)
(*                                                                         *)
(* Numbers.  A float is modelled by an exact rational <<n, d>> in lowest   *)
(* terms with d > 0, or by NaN == <<0, 0>>.  Rounding of IEEE doubles is   *)
(* abstracted away; what is kept of float behaviour is the part the code   *)
(* branches on: NaN propagates through arithmetic, every comparison with   *)
(* NaN is false, a Python float division by zero raises ZeroDivisionError, *)
(* and a numpy.float64 division 0.0/0.0 yields NaN instead of raising.     *)
(* A float beyond the reach of the exact form is written <<k, -1>>: the    *)
(* power of ten 1e+k.  It occurs for one discount rate, 1e155, and for its *)
(* powers and their reciprocals; ** raises OverflowError when the result   *)
(* exceeds the largest float.                                              *)
(***************************************************************************)
EXTENDS Integers, Sequences, FiniteSets, TLC

VARIABLES
    pc,                 \* control point of the function being executed
    \* ---- load_mortality_tables
    male_file,          \* the file "Male Mortality Indonesia.csv" on disk
    female_file,        \* the file "Female Mortality Indonesia.csv" on disk
    male_table,         \* local male_table
    female_table,       \* local female_table
    loaded_source,      \* local loaded_source
    exc,                \* <<>> or <<the exception raised inside the try block>>
    loaded,             \* <<>> or <<the tuple load_mortality_tables returned>>
    \* ---- calculate_life_annuity_factor
    caller,             \* who called the valuation: "direct" or "run_simulation"
    retirement_age,
    gender,
    discount_rate,
    mortality_tables,   \* <<male table, female table>>
    t,                  \* loop index
    total_pv,
    total_np,           \* total_pv is a numpy.float64 (else a Python float)
    prob_survival,
    surv_np,            \* prob_survival is a numpy.float64
    broke,              \* the loop was left by break
    trace,              \* history: one record per executed loop body
    annuity_factor,     \* <<>> or <<returned value>>
    \* ---- run_simulation
    inputs,             \* the scalar arguments of run_simulation
    year,               \* number of accumulation steps done
    projected_balance,
    yearly_salary,
    result,             \* <<>> (None / nothing returned) or <<result record>>
    status,             \* "" until return, then "Already Retired" or "Success"
    raised              \* "" or the name of the exception that left the function

loadVars == <<male_file, female_file, male_table, female_table, loaded_source,
              exc, loaded>>
annVars  == <<caller, retirement_age, gender, discount_rate, mortality_tables,
              t, total_pv, total_np, prob_survival, surv_np, broke, trace,
              annuity_factor>>
simVars  == <<inputs, year, projected_balance, yearly_salary, result, status>>
vars     == <<pc, loadVars, annVars, simVars, raised>>

----------------------------------------------------------------------------
(* Bounds of the model *)

\* Tables and retirement ages cover the last AgeSpan ages below the horizon.
AgeSpan == 3
\* current_age ranges from YearsBack years before the first retirement age.
YearsBack == 1
\* A CSV file holds at most MaxRows data rows.
MaxRows == 2

(* Program constants *)

Horizon == 115           \* range(0, 115 - retirement_age)
MaxTableAge == 120       \* range(0, 121)
FemaleOffset == 5        \* age_offset = 5 if gender == "Female" else 0
FlatAge == 30            \* if effective_age < 30
DescriptorCut == 50      \* str(e)[:50]
MaxExp10 == 308          \* largest power of ten a float holds; x ** t beyond it
                         \* raises OverflowError

----------------------------------------------------------------------------
(* Float arithmetic *)

NaN == <<0, 0>>
IsNaN(x) == x[2] = 0

Abs(i) == IF i < 0 THEN -i ELSE i

RECURSIVE GCD(_, _)
GCD(a, b) == IF b = 0 THEN a ELSE GCD(b, a % b)

\* The rational n/d (d # 0) in lowest terms with a positive denominator.
R(n, d) ==
    LET g == GCD(Abs(n), Abs(d))
        s == IF d < 0 THEN -1 ELSE 1
    IN  <<(s * n) \div g, (s * d) \div g>>

Zero == <<0, 1>>
One  == <<1, 1>>

RAdd(a, b) ==
    IF IsNaN(a) \/ IsNaN(b) THEN NaN
    ELSE LET l == (a[2] \div GCD(a[2], b[2])) * b[2]
         IN  R(a[1] * (l \div a[2]) + b[1] * (l \div b[2]), l)

RNeg(a) == IF IsNaN(a) THEN NaN ELSE <<-a[1], a[2]>>

RSub(a, b) == RAdd(a, RNeg(b))

RMul(a, b) ==
    IF IsNaN(a) \/ IsNaN(b) THEN NaN
    ELSE LET g1 == GCD(Abs(a[1]), b[2])
             g2 == GCD(Abs(b[1]), a[2])
         IN  R((a[1] \div g1) * (b[1] \div g2), (a[2] \div g2) * (b[2] \div g1))

\* a / b for b # 0 (the callers decide what a zero divisor does).
RDiv(a, b) ==
    IF IsNaN(a) \/ IsNaN(b) THEN NaN
    ELSE RMul(a, R(b[2], b[1]))

\* Comparisons: false whenever an operand is NaN.
RLt(a, b) == ~IsNaN(a) /\ ~IsNaN(b) /\ a[1] * b[2] < b[1] * a[2]
RLe(a, b) == ~IsNaN(a) /\ ~IsNaN(b) /\ a[1] * b[2] <= b[1] * a[2]
RGt(a, b) == RLt(b, a)

\* a ** n for an integer n >= 0 (Python: x ** 0 == 1.0, also for x == 0).
RECURSIVE RPow(_, _)
RPow(a, n) == IF n = 0 THEN One ELSE RMul(a, RPow(a, n - 1))

\* Powers of ten outside the exact form.
IsPow10(x) == x[2] < 0
Pow10(k) == <<k, -1>>

\* 1 + x: a power of ten of 1e16 or more absorbs the 1.
OnePlus(x) == IF IsPow10(x) THEN x ELSE RAdd(One, x)

\* x ** n raises OverflowError
PowOverflows(x, n) == IsPow10(x) /\ x[1] * n > MaxExp10

\* x ** n when it does not overflow
Pow(x, n) ==
    IF IsPow10(x) THEN (IF n = 0 THEN One ELSE Pow10(x[1] * n)) ELSE RPow(x, n)

\* 1 / x for x # 0
Reciprocal(x) == IF IsPow10(x) THEN Pow10(-x[1]) ELSE RDiv(One, x)

\* s * v, where s is exact
Scaled(s, v) ==
    IF IsPow10(v) THEN (IF s = Zero \/ IsNaN(s) THEN s ELSE v) ELSE RMul(s, v)

\* total + p, where total is exact: a p of 1e-155 or less is below the
\* rounding of a total that is at least 1.0, as it is from the first step on.
Plus(total, p) == IF IsPow10(p) THEN total ELSE RAdd(total, p)

\* min(x, y) of Python: y only when y < x.
PyMin(x, y) == IF RLt(y, x) THEN y ELSE x

Max(i, j) == IF i > j THEN i ELSE j
Min(i, j) == IF i < j THEN i ELSE j

----------------------------------------------------------------------------
(* Mortality tables.  A table is a dict {age: qx}: q is the mapping, np the  *)
(* ages whose stored value is a numpy.float64 (the others are Python floats). *)

EmptyTable == [q |-> [a \in {} |-> Zero], np |-> {}]

TableAges  == (Horizon - AgeSpan)..(Horizon - 1)
RetireAges == (Horizon - AgeSpan)..(Horizon + 1)
Genders    == {"Male", "Female"}

\* qx values a table may hold: valid ones, one just below certain death,
\* and malformed ones (negative, above 1, NaN).
QxCells == {R(0, 1), R(1, 2), R(1, 1), R(99999, 100000), R(-1, 2), R(3, 2), NaN}

Tables ==
    UNION { { [q |-> f, np |-> n] : f \in [D -> QxCells], n \in {{}, D} }
            : D \in SUBSET TableAges }

\* Discount rates: -100 %, 0, 4 %, 100 % and 1e155.
DiscountRates == {R(-1, 1), Zero, R(1, 25), One, Pow10(155)}

----------------------------------------------------------------------------
(* calculate_life_annuity_factor *)

\* if gender == "Male": table = mortality_tables[0] else: mortality_tables[1]
SelectTable(g, tables) == IF g = "Male" THEN tables[1] ELSE tables[2]

\* table.get(current_age, 1.0)
TableGetMissingSurvives(table, age) ==
    IF age \in DOMAIN table.q THEN table.q[age] ELSE Zero
TableGet(table, age) ==
    IF age \in DOMAIN table.q THEN table.q[age] ELSE One

\* if pd.isna(q_x) or q_x < 0: q_x = 1.0
IsBadQx(q) == IsNaN(q) \/ RLt(q, Zero)
SafetyCheck(q) == IF IsBadQx(q) THEN One ELSE q

\* prob_survival * (1 - q_x)
Survive(S, q) == RMul(S, RSub(One, q))

\* if prob_survival < 0.0001: break
BreakNever(S) == FALSE
BreakNow(S) == RLt(S, R(1, 10000))

\* for t in range(0, 115 - retirement_age)
LoopRunning == ~broke /\ t < Horizon - retirement_age

\* The call: total_pv = 0.0, prob_survival = 1.0, first t of the range.
AnnuityCall(who, age, g, rate, tables) ==
    /\ caller' = who
    /\ retirement_age' = age
    /\ gender' = g
    /\ discount_rate' = rate
    /\ mortality_tables' = tables
    /\ t' = 0
    /\ total_pv' = Zero
    /\ total_np' = FALSE
    /\ prob_survival' = One
    /\ surv_np' = FALSE
    /\ broke' = FALSE
    /\ trace' = <<>>
    /\ annuity_factor' = <<>>

\* One execution of the loop body.
AnnuityStep ==
    /\ pc = "annuity"
    /\ LoopRunning
    /\ LET table       == SelectTable(gender, mortality_tables)
           current_age == retirement_age + t
           base        == OnePlus(discount_rate)
           growth      == Pow(base, t)
       IN  IF PowOverflows(base, t) \/ growth = Zero
           THEN \* (1 + discount_rate) ** t raises OverflowError,
                \* 1 / 0.0 raises ZeroDivisionError
                /\ pc' = "raised"
                /\ raised' = IF PowOverflows(base, t) THEN "OverflowError"
                                                     ELSE "ZeroDivisionError"
                /\ UNCHANGED <<loadVars, annVars, simVars>>
           ELSE LET v    == Reciprocal(growth)
                    got  == TableGet(table, current_age)
                    q_x  == SafetyCheck(got)
                    q_np == current_age \in table.np /\ ~IsBadQx(got)
                    next == Survive(prob_survival, q_x)
                IN  /\ total_pv' = Plus(total_pv, Scaled(prob_survival, v))
                    /\ total_np' = (total_np \/ surv_np)
                    /\ prob_survival' = next
                    /\ surv_np' = (surv_np \/ q_np)
                    /\ broke' = BreakNow(next)
                    /\ t' = t + 1
                    /\ trace' = Append(trace,
                                  [age |-> current_age, before |-> prob_survival,
                                   after |-> next])
                    /\ UNCHANGED <<pc, raised, caller, retirement_age, gender,
                                   discount_rate, mortality_tables, annuity_factor,
                                   loadVars, simVars>>

\* return total_pv
AnnuityReturn ==
    /\ pc = "annuity"
    /\ ~LoopRunning
    /\ annuity_factor' = <<total_pv>>
    /\ pc' = IF caller = "run_simulation" THEN "accumulate" ELSE "done"
    /\ UNCHANGED <<raised, caller, retirement_age, gender, discount_rate,
                   mortality_tables, t, total_pv, total_np, prob_survival,
                   surv_np, broke, trace, loadVars, simVars>>

----------------------------------------------------------------------------
(* _generate_synthetic_mortality *)

\* np.exp(0.092 * k) for k = 0..90, in thousandths (rounded).
ExpThousandths ==
    <<
       1000, 1096, 1202, 1318, 1445, 1584, 1737, 1904,
       2088, 2289, 2509, 2751, 3016, 3307, 3626, 3975,
       4358, 4778, 5238, 5743, 6297, 6903, 7569, 8298,
       9098, 9974, 10935, 11989, 13144, 14411, 15800, 17322,
       18992, 20822, 22828, 25028, 27440, 30084, 32983, 36162,
       39646, 43467, 47656, 52248, 57283, 62803, 68855, 75490,
       82765, 90740, 99484, 109071, 119582, 131105, 143739, 157591,
       172777, 189426, 207680, 227693, 249635, 273691, 300065, 328981,
       360683, 395440, 433547, 475326, 521130, 571349, 626407, 686770,
       752951, 825509, 905059, 992275, 1087895, 1192730, 1307667, 1433680,
       1571837, 1723306, 1889372, 2071441, 2271056, 2489905, 2729845, 2992906,
       3281317, 3597520, 3944194
    >>

Exp092(k) == R(ExpThousandths[k + 1], 1000)

\* effective_age = max(0, age - age_offset)
EffectiveAge(g, age) == Max(0, age - (IF g = "Female" THEN FemaleOffset ELSE 0))

\* qx before the clamp: 0.0005, or 0.0005 * np.exp(0.092 * (effective_age - 30))
RawQx(g, age) ==
    IF EffectiveAge(g, age) < FlatAge
    THEN R(5, 10000)
    ELSE RMul(R(5, 10000), Exp092(EffectiveAge(g, age) - FlatAge))

\* table[age] = min(qx, 1.0)
SyntheticQxUnclamped(g, age) == RawQx(g, age)
SyntheticQx(g, age) == PyMin(RawQx(g, age), One)

\* for age in range(0, 121): the table, and which of its values are
\* numpy.float64 (a product with np.exp that min() did not replace by 1.0).
SyntheticTable(g) ==
    [q  |-> [age \in 0..MaxTableAge |-> SyntheticQx(g, age)],
     np |-> {age \in 0..MaxTableAge :
                EffectiveAge(g, age) >= FlatAge /\ ~RLt(One, RawQx(g, age))}]

----------------------------------------------------------------------------
(* load_mortality_tables *)

(* A file on disk is absent, or makes pd.read_csv raise ("unreadable"), or   *)
(* parses to a frame with fewer than four columns so that df.iloc[:, 3]      *)
(* raises IndexError ("fewcols"), or parses to data rows <<age cell, rate    *)
(* cell>> (columns 0 and 3 below the header row, whose offset is not         *)
(* modelled).  A cell is a number or text that is no number.                 *)

Num(n, d) == <<"num", n, d>>
Text == <<"text", 0, 0>>

\* pd.to_numeric(column, errors='coerce'), cell by cell
ToNumeric(cell) == IF cell[1] = "num" THEN R(cell[2], cell[3]) ELSE NaN

Rows ==
    { <<Num(65, 1), Num(1, 2)>>, <<Num(65, 1), Num(3, 2)>>,
      <<Num(121, 1), Num(-1, 2)>>, <<Text, Num(1, 2)>>, <<Num(66, 1), Text>> }

RowSeqs == UNION { [1..n -> Rows] : n \in 0..MaxRows }

AbsentFile == [kind |-> "absent", rows |-> <<>>, msg |-> 0]

\* msg: the length of the message of the exception the file provokes.
Files ==
    {AbsentFile}
    \cup { [kind |-> "unreadable", rows |-> <<>>, msg |-> n] : n \in {17, 66} }
    \cup { [kind |-> "fewcols", rows |-> <<>>, msg |-> 42] }
    \cup { [kind |-> "csv", rows |-> rs, msg |-> 0] : rs \in RowSeqs }

InitialSource == <<"Synthetic (Fallback)", "", 0>>
CsvSource == <<"Indonesia Mortality Table 2023 (CSV)", "", 0>>

\* f"Synthetic Data (Error loading CSV: {str(e)[:50]}...)"
ErrorSource(e) ==
    <<"Synthetic Data (Error loading CSV: ", e.name, Min(e.msg, DescriptorCut)>>

\* os.path.exists(file)
Exists(file) == file.kind # "absent"

\* df.dropna(subset=[df.columns[0]]) after the coercion of column 0
DropNaAges(rows) == SelectSeq(rows, LAMBDA r : ~IsNaN(ToNumeric(r[1])))

\* dict(zip(df.iloc[:, 0], df.iloc[:, 3])): a later row replaces an earlier
\* one of the same age; iterating a Series yields Python floats.
TableFromRows(rows) ==
    LET kept == DropNaAges(rows)
        ageOf(i) == ToNumeric(kept[i][1])[1]
        keys == {ageOf(i) : i \in 1..Len(kept)}
        last(a) == CHOOSE i \in 1..Len(kept) :
                       ageOf(i) = a /\ \A j \in (i + 1)..Len(kept) : ageOf(j) # a
    IN  [q |-> [a \in keys |-> ToNumeric(kept[last(a)][2])], np |-> {}]

\* What reading one file raises: <<>> when nothing.
ReadError(file) ==
    CASE file.kind = "unreadable" -> <<[name |-> "ParserError", msg |-> file.msg]>>
      [] file.kind = "fewcols"    -> <<[name |-> "IndexError", msg |-> file.msg]>>
      [] OTHER                    -> <<>>

\* The except block: male_table, female_table = synthetic ones.
ExceptTablesKeepLoaded(m, f) ==
    <<IF m = EmptyTable THEN SyntheticTable("Male") ELSE m, SyntheticTable("Female")>>
ExceptTables(m, f) == <<SyntheticTable("Male"), SyntheticTable("Female")>>

\* if os.path.exists(male_file) and os.path.exists(female_file): ... else: raise
LoadCheckFiles ==
    /\ pc = "load"
    /\ IF Exists(male_file) /\ Exists(female_file)
       THEN pc' = "read_male" /\ exc' = <<>>
       ELSE /\ pc' = "except"
            /\ exc' = <<[name |-> "FileNotFoundError", msg |-> 19]>>
    /\ UNCHANGED <<male_file, female_file, male_table, female_table, loaded_source,
                   loaded, annVars, simVars, raised>>

\* --- Load Male Table ---
LoadMale ==
    /\ pc = "read_male"
    /\ IF ReadError(male_file) # <<>>
       THEN pc' = "except" /\ exc' = ReadError(male_file) /\ UNCHANGED male_table
       ELSE /\ male_table' = TableFromRows(male_file.rows)
            /\ pc' = "read_female"
            /\ UNCHANGED exc
    /\ UNCHANGED <<male_file, female_file, female_table, loaded_source, loaded,
                   annVars, simVars, raised>>

\* --- Load Female Table ---, then loaded_source = "... (CSV)"
LoadFemale ==
    /\ pc = "read_female"
    /\ IF ReadError(female_file) # <<>>
       THEN /\ pc' = "except"
            /\ exc' = ReadError(female_file)
            /\ UNCHANGED <<female_table, loaded_source>>
       ELSE /\ female_table' = TableFromRows(female_file.rows)
            /\ loaded_source' = CsvSource
            /\ pc' = "return"
            /\ UNCHANGED exc
    /\ UNCHANGED <<male_file, female_file, male_table, loaded, annVars, simVars, raised>>

\* except Exception as e: the fallback
LoadExcept ==
    /\ pc = "except"
    /\ male_table' = ExceptTables(male_table, female_table)[1]
    /\ female_table' = ExceptTables(male_table, female_table)[2]
    /\ loaded_source' = ErrorSource(exc[1])
    /\ pc' = "return"
    /\ UNCHANGED <<male_file, female_file, exc, loaded, annVars, simVars, raised>>

\* return male_table, female_table, loaded_source
LoadReturn ==
    /\ pc = "return"
    /\ loaded' = <<[male |-> male_table, female |-> female_table,
                    source |-> loaded_source]>>
    /\ pc' = "done"
    /\ UNCHANGED <<male_file, female_file, male_table, female_table, loaded_source,
                   exc, annVars, simVars, raised>>

----------------------------------------------------------------------------
(* Idle values of the variables a specification does not use *)

LoadIdle ==
    /\ male_file = AbsentFile
    /\ female_file = AbsentFile
    /\ male_table = EmptyTable
    /\ female_table = EmptyTable
    /\ loaded_source = InitialSource
    /\ exc = <<>>
    /\ loaded = <<>>

NoInputs ==
    [current_age |-> 0, retire_age |-> 0, current_salary |-> Zero,
     salary_growth |-> Zero, investment_return |-> Zero, inflation |-> Zero,
     employer_contrib_pct |-> Zero, personal_contrib_pct |-> Zero,
     target_monthly_income_today_value |-> Zero, gender |-> "Male",
     mortality_tables |-> <<EmptyTable, EmptyTable>>]

SimIdle ==
    /\ inputs = NoInputs
    /\ year = 0
    /\ projected_balance = Zero
    /\ yearly_salary = Zero
    /\ result = <<>>
    /\ status = ""

----------------------------------------------------------------------------
(* SpecAnnuity: calculate_life_annuity_factor called on its own *)

InitAnnuity ==
    /\ pc = "annuity"
    /\ raised = ""
    /\ LoadIdle
    /\ SimIdle
    /\ caller = "direct"
    /\ retirement_age \in RetireAges
    /\ gender \in Genders
    /\ discount_rate \in DiscountRates
    /\ \E T \in Tables :
          mortality_tables = IF gender = "Male" THEN <<T, EmptyTable>>
                                                ELSE <<EmptyTable, T>>
    /\ t = 0
    /\ total_pv = Zero
    /\ total_np = FALSE
    /\ prob_survival = One
    /\ surv_np = FALSE
    /\ broke = FALSE
    /\ trace = <<>>
    /\ annuity_factor = <<>>

NextAnnuity == AnnuityStep \/ AnnuityReturn

SpecAnnuity == InitAnnuity /\ [][NextAnnuity]_vars

----------------------------------------------------------------------------
(* run_simulation *)

\* years_to_go = retire_age - current_age
YearsToGo(in) == in.retire_age - in.current_age

\* if years_to_go <= 0: return None, "Already Retired"
AlreadyRetiredStrict(years_to_go) == years_to_go < 0
AlreadyRetired(years_to_go) == years_to_go <= 0

\* safe_withdrawal_rate_return = 0.04
SafeWithdrawalRate == R(4, 100)

\* target_annual_income_future =
\*     (target_monthly_income_today_value * 12) * (1 + inflation) ** years_to_go
TargetAnnualIncomeFuture(in) ==
    RMul(RMul(in.target_monthly_income_today_value, R(12, 1)),
         RPow(RAdd(One, in.inflation), YearsToGo(in)))

\* total_nest_egg_needed = target_annual_income_future * annuity_factor
NestEggNeeded(in, factor) == RMul(TargetAnnualIncomeFuture(in), factor)

\* One pass of the accumulation loop: <<projected_balance, yearly_salary>> after it.
AccumulateRaiseFirst(balance, salary, in) ==
    LET raisedSalary == RMul(salary, RAdd(One, in.salary_growth))
        contribution == RMul(raisedSalary,
                             RAdd(in.employer_contrib_pct, in.personal_contrib_pct))
    IN  <<RMul(RAdd(balance, contribution), RAdd(One, in.investment_return)),
          raisedSalary>>
Accumulate(balance, salary, in) ==
    LET contribution == RMul(salary,
                             RAdd(in.employer_contrib_pct, in.personal_contrib_pct))
        withContribution == RAdd(balance, contribution)
        grown == RMul(withContribution, RAdd(One, in.investment_return))
    IN  <<grown, RMul(salary, RAdd(One, in.salary_growth))>>

\* shortfall = total_nest_egg_needed - projected_balance
ShortfallSwapped(needed, balance) == RSub(balance, needed)
Shortfall(needed, balance) == RSub(needed, balance)

\* (1 + investment_return) ** years_to_go - 1
AnnuityDivisor(in) ==
    RSub(RPow(RAdd(One, in.investment_return), YearsToGo(in)), One)

\* The dict run_simulation returns.
ResultRecord(in, needed, balance, shortfall, extra, factor) ==
    [nest_egg_needed |-> needed,
     projected_balance |-> balance,
     shortfall |-> shortfall,
     extra_monthly_needed |-> extra,
     future_monthly_target |-> RDiv(TargetAnnualIncomeFuture(in), R(12, 1)),
     years_to_go |-> YearsToGo(in),
     annuity_factor |-> factor]

\* Entry: the precondition check, then the call of the annuity valuation.
SimEnter ==
    /\ pc = "run_simulation"
    /\ IF AlreadyRetired(YearsToGo(inputs))
       THEN /\ result' = <<>>
            /\ status' = "Already Retired"
            /\ pc' = "done"
            /\ UNCHANGED <<annVars, inputs, year, projected_balance, yearly_salary>>
       ELSE /\ AnnuityCall("run_simulation", inputs.retire_age, inputs.gender,
                           SafeWithdrawalRate, inputs.mortality_tables)
            /\ year' = 0
            /\ projected_balance' = Zero
            /\ yearly_salary' = inputs.current_salary
            /\ pc' = "annuity"
            /\ UNCHANGED <<inputs, result, status>>
    /\ UNCHANGED <<loadVars, raised>>

\* for year in range(years_to_go): one pass
AccumStep ==
    /\ pc = "accumulate"
    /\ year < YearsToGo(inputs)
    /\ LET after == Accumulate(projected_balance, yearly_salary, inputs)
       IN  /\ projected_balance' = after[1]
           /\ yearly_salary' = after[2]
    /\ year' = year + 1
    /\ UNCHANGED <<pc, raised, loadVars, annVars, inputs, result, status>>

\* The gap, the solution and the return.
SimFinish ==
    /\ pc = "accumulate"
    /\ year >= YearsToGo(inputs)
    /\ LET factor    == annuity_factor[1]
           needed    == NestEggNeeded(inputs, factor)
           shortfall == Shortfall(needed, projected_balance)
           divisor   == AnnuityDivisor(inputs)
           dividend  == RMul(shortfall, inputs.investment_return)
       IN  IF RGt(shortfall, Zero) /\ divisor = Zero /\ ~total_np
           THEN \* Python float / 0.0
                /\ pc' = "raised"
                /\ raised' = "ZeroDivisionError"
                /\ UNCHANGED <<result, status>>
           ELSE LET extra ==
                        IF RGt(shortfall, Zero)
                        THEN IF divisor = Zero
                             THEN \* numpy.float64 0.0 / 0.0: nan and a RuntimeWarning
                                  \* (the dividend is 0.0 whenever the divisor is, for
                                  \* the rates of this model)
                                  NaN
                             ELSE RDiv(RDiv(dividend, divisor), R(12, 1))
                        ELSE Zero
                IN  /\ result' = <<ResultRecord(inputs, needed, projected_balance,
                                                shortfall, extra, factor)>>
                    /\ status' = "Success"
                    /\ pc' = "done"
                    /\ UNCHANGED raised
    /\ UNCHANGED <<loadVars, annVars, inputs, year, projected_balance, yearly_salary>>

----------------------------------------------------------------------------
(* Spec: run_simulation on bounded inputs *)

CurrentAges   == (Horizon - AgeSpan - YearsBack)..(Horizon - AgeSpan + 1)
Salaries      == {Zero, R(48, 1)}
SalaryGrowths == {Zero, R(1, 2)}
Returns       == {R(-1, 2), Zero, R(1, 2)}
Inflations    == {Zero, R(1, 2)}
ContribRates  == {Zero, R(1, 4)}
Targets       == {Zero, One}

\* Tables for run_simulation: the empty one and complete ones of one qx value.
SimTables ==
    {EmptyTable} \cup
    { [q |-> [a \in TableAges |-> c], np |-> n] :
        c \in {Zero, R(1, 2)}, n \in {{}, TableAges} }

PlanInputs ==
    { [current_age |-> ca, retire_age |-> ra, current_salary |-> sal,
       salary_growth |-> g, investment_return |-> r, inflation |-> i,
       employer_contrib_pct |-> e, personal_contrib_pct |-> p,
       target_monthly_income_today_value |-> tg, gender |-> gd,
       mortality_tables |-> IF gd = "Male" THEN <<T, EmptyTable>>
                                           ELSE <<EmptyTable, T>>] :
        ca \in CurrentAges, ra \in RetireAges, sal \in Salaries,
        g \in SalaryGrowths, r \in Returns, i \in Inflations,
        e \in ContribRates, p \in ContribRates, tg \in Targets,
        gd \in Genders, T \in SimTables }

Init ==
    /\ pc = "run_simulation"
    /\ raised = ""
    /\ LoadIdle
    /\ inputs \in PlanInputs
    /\ year = 0
    /\ projected_balance = Zero
    /\ yearly_salary = Zero
    /\ result = <<>>
    /\ status = ""
    /\ caller = ""
    /\ retirement_age = 0
    /\ gender = ""
    /\ discount_rate = Zero
    /\ mortality_tables = <<EmptyTable, EmptyTable>>
    /\ t = 0
    /\ total_pv = Zero
    /\ total_np = FALSE
    /\ prob_survival = One
    /\ surv_np = FALSE
    /\ broke = FALSE
    /\ trace = <<>>
    /\ annuity_factor = <<>>

Next == SimEnter \/ AnnuityStep \/ AnnuityReturn \/ AccumStep \/ SimFinish

Spec == Init /\ [][Next]_vars

----------------------------------------------------------------------------
(* SpecLoad: load_mortality_tables over the files found on disk *)

AnnuityIdle ==
    /\ caller = ""
    /\ retirement_age = 0
    /\ gender = ""
    /\ discount_rate = Zero
    /\ mortality_tables = <<EmptyTable, EmptyTable>>
    /\ t = 0
    /\ total_pv = Zero
    /\ total_np = FALSE
    /\ prob_survival = One
    /\ surv_np = FALSE
    /\ broke = FALSE
    /\ trace = <<>>
    /\ annuity_factor = <<>>

InitLoad ==
    /\ pc = "load"
    /\ raised = ""
    /\ male_file \in Files
    /\ female_file \in Files
    /\ male_table = EmptyTable
    /\ female_table = EmptyTable
    /\ loaded_source = InitialSource
    /\ exc = <<>>
    /\ loaded = <<>>
    /\ AnnuityIdle
    /\ SimIdle

NextLoad == LoadCheckFiles \/ LoadMale \/ LoadFemale \/ LoadExcept \/ LoadReturn

SpecLoad == InitLoad /\ [][NextLoad]_vars

----------------------------------------------------------------------------
(* Properties of load_mortality_tables, checked under SpecLoad *)

\* The two tables the generator yields.
SyntheticMale == SyntheticTable("Male")
SyntheticFemale == SyntheticTable("Female")

\* The exception the try block ends with for the files on disk.
ExpectedFailure ==
    IF ~Exists(male_file) \/ ~Exists(female_file)
    THEN [name |-> "FileNotFoundError", msg |-> 19]
    ELSE IF male_file.kind # "csv"
         THEN [name |-> IF male_file.kind = "fewcols" THEN "IndexError" ELSE "ParserError",
               msg |-> male_file.msg]
         ELSE [name |-> IF female_file.kind = "fewcols" THEN "IndexError" ELSE "ParserError",
               msg |-> female_file.msg]

\* C3: whatever the two files are (absent, unreadable, failing part-way, also
\* after the male table has been built), the call does not raise and returns
\* either both tables built from the CSV rows with the CSV descriptor, or both
\* tables synthetic with a descriptor holding the failure reason cut to 50
\* characters; never one real and one synthetic table.
C3_AtomicFallback ==
    /\ raised = ""
    /\ pc # "raised"
    /\ loaded # <<>> =>
        LET L == loaded[1]
        IN  /\ (L.male = SyntheticMale) <=> (L.female = SyntheticFemale)
            /\ IF male_file.kind = "csv" /\ female_file.kind = "csv"
               THEN /\ L.source = CsvSource
                    /\ L.male = TableFromRows(male_file.rows)
                    /\ L.female = TableFromRows(female_file.rows)
               ELSE /\ L.male = SyntheticMale
                    /\ L.female = SyntheticFemale
                    /\ L.source[1] = "Synthetic Data (Error loading CSV: "
                    /\ L.source[2] = ExpectedFailure.name
                    /\ L.source[3] <= 50
                    /\ L.source[3] = Min(ExpectedFailure.msg, 50)

C3_Witness ==
    /\ loaded # <<>>
    /\ male_file.kind = "csv"
    /\ TableFromRows(male_file.rows) # EmptyTable
    /\ female_file.kind = "fewcols"
    /\ loaded[1].male = SyntheticMale
    /\ loaded[1].female = SyntheticFemale
    /\ loaded[1].source[2] = "IndexError"

\* Every age present is an integer in 0..120 with 0 <= qx <= 1.
TableInvariant(T) ==
    \A a \in DOMAIN T.q :
        /\ a \in 0..120
        /\ RLe(Zero, T.q[a]) /\ RLe(T.q[a], One)

\* C7 as stated: every table load_mortality_tables returns, built from CSV or
\* synthesized, satisfies the MortalityTable invariant.
C7_EveryReturnedTableValid ==
    loaded # <<>> => (TableInvariant(loaded[1].male) /\ TableInvariant(loaded[1].female))

\* The table holds exactly the ages of the rows whose age cell is a number,
\* each with the coerced rate cell of the last such row.
HoldsRowsAsRead(T, rows) ==
    /\ \A i \in 1..Len(rows) : rows[i][1][1] = "num" => rows[i][1][2] \in DOMAIN T.q
    /\ \A a \in DOMAIN T.q :
           \E i \in 1..Len(rows) :
               /\ rows[i][1] = Num(a, 1)
               /\ \A j \in (i + 1)..Len(rows) : rows[j][1] # Num(a, 1)
               /\ T.q[a] = (IF rows[i][2][1] = "num"
                            THEN R(rows[i][2][2], rows[i][2][3]) ELSE NaN)

\* Every age 0..120 is defined with 0 < qx <= 1.
SyntheticInvariant(T) ==
    /\ DOMAIN T.q = 0..120
    /\ \A a \in DOMAIN T.q : RLt(Zero, T.q[a]) /\ RLe(T.q[a], One)

\* C7 amended: a synthesized table defines every age 0..120 with 0 < qx <= 1;
\* a table built from CSV holds, for each age that parsed as a number, the
\* coerced rate of the last row of that age, not validated.
C7_SyntheticValidCsvAsRead ==
    loaded # <<>> =>
        LET L == loaded[1]
        IN  IF L.source = CsvSource
            THEN /\ HoldsRowsAsRead(L.male, male_file.rows)
                 /\ HoldsRowsAsRead(L.female, female_file.rows)
            ELSE /\ SyntheticInvariant(L.male)
                 /\ SyntheticInvariant(L.female)

C7_Witness ==
    /\ loaded # <<>>
    /\ loaded[1].source # CsvSource
    /\ RLt(loaded[1].male.q[112], One)
    /\ loaded[1].male.q[113] = One
    /\ RLt(loaded[1].female.q[117], One)
    /\ loaded[1].female.q[118] = One
    /\ loaded[1].male.q[30] = R(5, 10000)
    /\ loaded[1].female.q[35] = R(5, 10000)

----------------------------------------------------------------------------
(* Properties of run_simulation, checked under Spec *)

Entered == pc # "run_simulation"
Returned == pc = "done"
Left == pc \in {"done", "raised"}

\* C1: a call with retire_age <= current_age returns (None, "Already Retired")
\* at once: no annuity valuation is started, no accumulation step is made and
\* nothing is raised, whatever the other inputs are.
C1_AlreadyRetiredFailsAtOnce ==
    (Entered /\ inputs.retire_age <= inputs.current_age) =>
        /\ Returned
        /\ result = <<>>
        /\ status = "Already Retired"
        /\ raised = ""
        /\ caller = ""
        /\ trace = <<>>
        /\ annuity_factor = <<>>
        /\ year = 0
        /\ projected_balance = Zero

C1_Witness ==
    /\ Returned
    /\ inputs.retire_age = inputs.current_age
    /\ status = "Already Retired"
    /\ inputs.investment_return = Zero
    /\ inputs.current_salary # Zero

\* C2: a call with retire_age > current_age always comes back with a result
\* record and status "Success", and never leaves by an exception.
C2_ValidPlanAlwaysSucceeds ==
    (inputs.retire_age > inputs.current_age) =>
        /\ raised = ""
        /\ pc # "raised"
        /\ Returned => (status = "Success" /\ Len(result) = 1)

\* The shortfall the code has computed once the accumulation is over.
FinalShortfall == RSub(NestEggNeeded(inputs, annuity_factor[1]), projected_balance)

\* C4: in every result record shortfall = nest_egg_needed - projected_balance;
\* shortfall <= 0 (in particular projected_balance = nest_egg_needed) gives
\* extra_monthly_needed = 0, so a non-zero extra_monthly_needed means
\* shortfall > 0.
C4_ShortfallAndZeroExtra ==
    (Returned /\ result # <<>>) =>
        LET r == result[1]
        IN  /\ r.projected_balance = projected_balance
            /\ r.nest_egg_needed = NestEggNeeded(inputs, annuity_factor[1])
            /\ r.shortfall = RSub(r.nest_egg_needed, r.projected_balance)
            /\ RLe(r.shortfall, Zero) => r.extra_monthly_needed = Zero
            /\ r.projected_balance = r.nest_egg_needed =>
                   (r.shortfall = Zero /\ r.extra_monthly_needed = Zero)
            /\ r.extra_monthly_needed # Zero => RGt(r.shortfall, Zero)

C4_Witness ==
    /\ Returned
    /\ result # <<>>
    /\ result[1].nest_egg_needed # Zero
    /\ result[1].projected_balance = result[1].nest_egg_needed
    /\ result[1].extra_monthly_needed = Zero

\* C5: when shortfall > 0 the call returns extra_monthly_needed = X / 12 with
\* X * ((1 + r)^n - 1) / r = shortfall for r # 0 and X = shortfall / n for
\* r = 0 (no division by zero).
C5_RemediationSolvesShortfall ==
    (Left /\ annuity_factor # <<>> /\ RGt(FinalShortfall, Zero)) =>
        /\ result # <<>>
        /\ LET r == inputs.investment_return
               n == YearsToGo(inputs)
               X == RMul(result[1].extra_monthly_needed, R(12, 1))
           IN  IF r # Zero
               THEN RMul(X, RDiv(RSub(RPow(RAdd(One, r), n), One), r))
                        = result[1].shortfall
               ELSE X = RDiv(result[1].shortfall, R(n, 1))

\* sum over k = from..n-1 of salary * rate * (1+g)^k * (1+r)^(n-k)
RECURSIVE ContributionsGrown(_, _, _)
ContributionsGrown(in, k, n) ==
    IF k >= n THEN Zero
    ELSE RAdd(RMul(RMul(RMul(in.current_salary,
                             RAdd(in.employer_contrib_pct, in.personal_contrib_pct)),
                        RPow(RAdd(One, in.salary_growth), k)),
                   RPow(RAdd(One, in.investment_return), n - k)),
              ContributionsGrown(in, k + 1, n))

\* C10: the accumulation starts from balance 0 and salary current_salary and
\* makes exactly years_to_go passes; after j passes the balance is the sum over
\* k < j of current_salary * (employer + personal) * (1+salary_growth)^k *
\* (1+investment_return)^(j-k) and the salary is current_salary *
\* (1+salary_growth)^j: each contribution uses that year's salary and earns
\* that year's return.
C10_AccumulationClosedForm ==
    (Entered /\ inputs.retire_age > inputs.current_age) =>
        /\ year \in 0..YearsToGo(inputs)
        /\ pc = "annuity" => year = 0
        /\ Left => year = YearsToGo(inputs)
        /\ projected_balance = ContributionsGrown(inputs, 0, year)
        /\ yearly_salary =
               RMul(inputs.current_salary, RPow(RAdd(One, inputs.salary_growth), year))
        /\ (Returned /\ result # <<>>) =>
               /\ result[1].projected_balance =
                      ContributionsGrown(inputs, 0, YearsToGo(inputs))
               /\ result[1].years_to_go = year

C10_Witness ==
    /\ Returned
    /\ result # <<>>
    /\ YearsToGo(inputs) >= 3
    /\ inputs.salary_growth # Zero
    /\ inputs.investment_return # Zero
    /\ inputs.employer_contrib_pct # Zero
    /\ inputs.personal_contrib_pct # Zero
    /\ result[1].projected_balance # Zero

----------------------------------------------------------------------------
(* Properties of calculate_life_annuity_factor, checked under SpecAnnuity *)

TableInUse == SelectTable(gender, mortality_tables)

\* Every present age has 0 <= qx <= 1.
ValidTable(T) == \A a \in DOMAIN T.q : RLe(Zero, T.q[a]) /\ RLe(T.q[a], One)

\* C6: for a non-negative discount rate and a valid table (ages may be
\* missing) the valuation has no error outcome; after every loop step the
\* running total is a number >= 0 and the survival probability is in [0, 1];
\* the value returned is that total.
C6_AnnuityFiniteNonNegative ==
    ((IsPow10(discount_rate) \/ RLe(Zero, discount_rate)) /\ ValidTable(TableInUse)) =>
        /\ raised = ""
        /\ pc \in {"annuity", "done"}
        /\ ~IsNaN(total_pv) /\ RLe(Zero, total_pv)
        /\ RLe(Zero, prob_survival) /\ RLe(prob_survival, One)
        /\ \A i \in 1..Len(trace) :
               RLe(Zero, trace[i].after) /\ RLe(trace[i].after, One)
        /\ pc = "done" => annuity_factor = <<total_pv>>

\* C8: the loop makes at most max(0, 115 - retirement_age) steps (never more
\* than 115), one per integer age from retirement_age on (t = 0, 1, ...),
\* none for an age >= 115, and none after a step that left the survival
\* probability below 0.0001.
C8_LoopBounded ==
    /\ Len(trace) <= Max(0, 115 - retirement_age)
    /\ Len(trace) <= 115
    /\ \A i \in 1..Len(trace) :
           /\ trace[i].age = retirement_age + (i - 1)
           /\ trace[i].age < 115
    /\ \A i \in 1..(Len(trace) - 1) : ~RLt(trace[i].after, R(1, 10000))
    /\ (pc = "annuity" /\ Len(trace) >= Max(0, 115 - retirement_age)) => ~LoopRunning
    /\ (pc = "annuity" /\ trace # <<>> /\ RLt(trace[Len(trace)].after, R(1, 10000)))
           => ~LoopRunning

C8_Witness ==
    /\ pc = "done"
    /\ retirement_age < 114
    /\ Len(trace) = 1
    /\ RLt(Zero, prob_survival)
    /\ RLt(prob_survival, R(1, 10000))

\* The age is absent from the table, or its qx is NaN or negative.
Malformed(T, a) ==
    \/ a \notin DOMAIN T.q
    \/ IsNaN(T.q[a])
    \/ RLt(T.q[a], Zero)

\* The payments of steps 1..i: survival before the step, discounted t years
\* (at the rate 1e155 a payment of t >= 1 is lost in the rounding of the total).
RECURSIVE PaymentsUpTo(_)
PaymentsUpTo(i) ==
    IF i = 0 THEN Zero
    ELSE IF i = 1 THEN trace[1].before
    ELSE IF IsPow10(discount_rate) THEN PaymentsUpTo(i - 1)
    ELSE RAdd(PaymentsUpTo(i - 1),
              RDiv(trace[i].before, RPow(RAdd(One, discount_rate), i - 1)))

\* C9: a step whose age is absent from the table, or has a NaN or negative
\* qx, counts as qx = 1.0: its own payment is accumulated with the survival
\* probability held before the lookup, survival becomes 0, and it is the last
\* step, so the total (and the value returned) is capped at that age.
C9_MalformedAgeIsCertainDeath ==
    \A i \in 1..Len(trace) :
        Malformed(TableInUse, trace[i].age) =>
            /\ trace[i].before = IF i = 1 THEN One ELSE trace[i - 1].after
            /\ trace[i].after = Zero
            /\ i = Len(trace)
            /\ prob_survival = Zero
            /\ total_pv = PaymentsUpTo(i)
            /\ pc = "done" => annuity_factor = <<PaymentsUpTo(i)>>

C9_Witness ==
    /\ pc = "done"
    /\ Len(trace) = 2
    /\ trace[2].age \in DOMAIN TableInUse.q
    /\ IsNaN(TableInUse.q[trace[2].age])
    /\ trace[2].before = R(1, 2)
    /\ discount_rate = R(1, 25)
    /\ annuity_factor = <<RAdd(One, RDiv(R(1, 2), R(26, 25)))>>

====
